---- MODULE Spec2Model ----
\* Three pages of the application, each with its own specification:
\*   Spec               Quantum Collapse Simulator (src/pages/3_QUANTUM_COLLAPSE.py)
\*   SpecGrover, SpecDJ the arcade, sector game and jar game
\*                      (src/pages/7_QUANTUM_ALGORITHM.py)
\*   SpecSuperposition  the superposition page (src/pages/2_SUPERPOSITION.py)
\* A specification leaves the variables of the other pages at their
\* "unopened" values.
\*
\* Quantum Collapse Simulator page.
\*
\* One run of the page script is modelled as a program counter walking the
\* script top to bottom: the qubit input loop (lines 27-43), the tensor
\* product construction (49-61), and the measurement selection with the
\* collapse logic (70-126).  A rerun starts the script again from the top with
\* fresh locals.
\*
\* Numbers.  Every value the script computes is a product of the parsed
\* amplitudes, a sum of squares of such products, or sqrt(1/sum).  A value x
\* is therefore kept exactly as its sign and the fraction x^2 = num/den
\* (x = sgn * sqrt(num/den)), with num and den arbitrary-precision naturals;
\* sums of squares are exact fractions.  Rounding of IEEE doubles (relative
\* error about 1e-16) is below every tolerance the script uses and is not
\* modelled; a double overflow/underflow cannot occur for the inputs drawn.
EXTENDS Integers, Sequences, FiniteSets, TLC

\* ---------------------------------------------------------------------------
\* Arbitrary-precision naturals: little-endian digit sequences in base Base,
\* without leading zero digits (zero is the empty sequence).
\* ---------------------------------------------------------------------------
Base == 10000

RECURSIVE BigNat(_)
BigNat(n) == IF n = 0 THEN <<>> ELSE <<n % Base>> \o BigNat(n \div Base)

RECURSIVE BigAddC(_, _, _)
BigAddC(a, b, c) ==
  IF a = <<>> /\ b = <<>>
  THEN (IF c = 0 THEN <<>> ELSE <<c>>)
  ELSE LET x == IF a = <<>> THEN 0 ELSE Head(a)
           y == IF b = <<>> THEN 0 ELSE Head(b)
           s == x + y + c
       IN  <<s % Base>> \o BigAddC(IF a = <<>> THEN a ELSE Tail(a),
                                   IF b = <<>> THEN b ELSE Tail(b),
                                   s \div Base)

BigAdd(a, b) == BigAddC(a, b, 0)

RECURSIVE BigMulD(_, _, _)
BigMulD(a, d, c) ==
  IF a = <<>>
  THEN BigNat(c)
  ELSE LET p == Head(a) * d + c
       IN  <<p % Base>> \o BigMulD(Tail(a), d, p \div Base)

RECURSIVE BigMul(_, _)
BigMul(a, b) ==
  IF a = <<>> \/ b = <<>>
  THEN <<>>
  ELSE IF a = <<1>> THEN b
  ELSE IF b = <<1>> THEN a
  ELSE LET low  == IF Head(a) = 0 THEN <<>> ELSE BigMulD(b, Head(a), 0)
           rest == BigMul(Tail(a), b)
       IN  BigAdd(low, IF rest = <<>> THEN <<>> ELSE <<0>> \o rest)

RECURSIVE BigLeqFrom(_, _, _)
BigLeqFrom(a, b, k) ==
  IF k = 0 THEN TRUE
  ELSE IF a[k] # b[k] THEN a[k] < b[k]
  ELSE BigLeqFrom(a, b, k - 1)

BigLeq(a, b) ==
  IF Len(a) # Len(b) THEN Len(a) < Len(b) ELSE BigLeqFrom(a, b, Len(a))

\* a - b for b <= a, digit by digit with borrow (leading zeros kept)
RECURSIVE BigSubB(_, _, _)
BigSubB(a, b, borrow) ==
  IF a = <<>>
  THEN <<>>
  ELSE LET y == (IF b = <<>> THEN 0 ELSE Head(b)) + borrow
           d == IF Head(a) >= y THEN Head(a) - y ELSE Head(a) + Base - y
       IN  <<d>> \o BigSubB(Tail(a), IF b = <<>> THEN b ELSE Tail(b),
                            IF Head(a) >= y THEN 0 ELSE 1)

RECURSIVE BigTrim(_)
BigTrim(a) ==
  IF a = <<>> \/ a[Len(a)] # 0 THEN a ELSE BigTrim(SubSeq(a, 1, Len(a) - 1))

\* |a - b|
BigAbsDiff(a, b) ==
  IF BigLeq(b, a) THEN BigTrim(BigSubB(a, b, 0)) ELSE BigTrim(BigSubB(b, a, 0))

\* ---------------------------------------------------------------------------
\* Exact non-negative fractions [num, den] and signed roots [sgn, num, den].
\* ---------------------------------------------------------------------------
Grid == 10000000

Frac(n, d) == [num |-> n, den |-> d]

FracZero == Frac(<<>>, <<1>>)

FracOne == Frac(<<1>>, <<1>>)

FracEq(x, y) ==
  IF x.den = y.den
  THEN x.num = y.num
  ELSE BigMul(x.num, y.den) = BigMul(y.num, x.den)

FracLeq(x, y) ==
  IF x.den = y.den
  THEN BigLeq(x.num, y.num)
  ELSE BigLeq(BigMul(x.num, y.den), BigMul(y.num, x.den))

FracAdd(x, y) ==
  IF x.den = y.den
  THEN Frac(BigAdd(x.num, y.num), x.den)
  ELSE Frac(BigAdd(BigMul(x.num, y.den), BigMul(y.num, x.den)),
            BigMul(x.den, y.den))

FracMul(x, y) == Frac(BigMul(x.num, y.num), BigMul(x.den, y.den))

\* |x - y|
FracDist(x, y) ==
  IF x.den = y.den
  THEN Frac(BigAbsDiff(x.num, y.num), x.den)
  ELSE Frac(BigAbsDiff(BigMul(x.num, y.den), BigMul(y.num, x.den)),
            BigMul(x.den, y.den))

\* |x - y| <= t
FracWithin(x, y, t) == FracLeq(FracDist(x, y), t)

Real(s, n, d) == [sgn |-> s, num |-> n, den |-> d]

RealOne == Real(1, <<1>>, <<1>>)

\* x * y
RealMul(x, y) ==
  Real(x.sgn * y.sgn, BigMul(x.num, y.num), BigMul(x.den, y.den))

\* x * y, written in lower terms when x's denominator is y's numerator
RealMulCancel(x, y) ==
  IF x.den = y.num
  THEN Real(x.sgn * y.sgn, x.num, y.den)
  ELSE RealMul(x, y)

\* abs(x)**2
AbsSq(x) == Frac(x.num, x.den)

RealEq(x, y) == x.sgn = y.sgn /\ FracEq(AbsSq(x), AbsSq(y))

\* ---------------------------------------------------------------------------
\* np.isclose(a, b) for b = 1.0:  |a - b| <= atol + rtol * |b|
\* ---------------------------------------------------------------------------
AtolInv == 1000000

DefaultAtolInv == 100000000

RtolInv == 100000

\* atol + rtol * |1.0|
Tolerance(atolInv) ==
  FracAdd(Frac(<<1>>, BigNat(atolInv)), Frac(<<1>>, BigNat(RtolInv)))

\* line 36: rtol defaulted
ValidationTolerance == Tolerance(AtolInv)

\* line 102: atol and rtol defaulted
DefaultTolerance == Tolerance(DefaultAtolInv)

isclose(a, tol) == FracWithin(a, FracOne, tol)

\* ---------------------------------------------------------------------------
\* Coefficient texts a user can type, and what
\* float(sp.N(sp.sympify(text))) makes of each (lines 30-35).
\* ---------------------------------------------------------------------------
MaxTexts == 9

TextList ==
  << "1/sqrt(2)", "1", "0", "-1/2", "sqrt(3)/2", "sqrt(1.0000008)",
     "sqrt(1.000005)", "sqrt(1.00002)", "abc", "1/2" >>

Texts == { TextList[k] : k \in 1..MaxTexts }

OnGrid(s, units) == Real(s, BigNat(units), BigNat(Grid))

\* ok = FALSE: sympify or float raised; otherwise val is the float obtained.
sympify(text) ==
  CASE text = "1/sqrt(2)"       -> [ok |-> TRUE,  val |-> OnGrid(1, Grid \div 2)]
    [] text = "1"               -> [ok |-> TRUE,  val |-> OnGrid(1, Grid)]
    [] text = "0"               -> [ok |-> TRUE,  val |-> OnGrid(0, 0)]
    [] text = "-1/2"            -> [ok |-> TRUE,  val |-> OnGrid(-1, Grid \div 4)]
    [] text = "sqrt(3)/2"       -> [ok |-> TRUE,  val |-> OnGrid(1, 3 * (Grid \div 4))]
    [] text = "1/2"             -> [ok |-> TRUE,  val |-> OnGrid(1, Grid \div 4)]
    [] text = "sqrt(1.0000008)" -> [ok |-> TRUE,  val |-> OnGrid(1, Grid + 8)]
    [] text = "sqrt(1.000005)"  -> [ok |-> TRUE,  val |-> OnGrid(1, Grid + 50)]
    [] text = "sqrt(1.00002)"   -> [ok |-> TRUE,  val |-> OnGrid(1, Grid + 200)]
    [] OTHER                    -> [ok |-> FALSE, val |-> OnGrid(0, 0)]

\* alpha**2 + beta**2
SumOfSquares(alpha, beta) == FracAdd(AbsSq(alpha), AbsSq(beta))

\* line 36: np.isclose(alpha**2 + beta**2, 1.0, atol=1e-6)
Normalized(alpha, beta) == isclose(SumOfSquares(alpha, beta), ValidationTolerance)

\* ---------------------------------------------------------------------------
\* State of one run of the page script.
\* ---------------------------------------------------------------------------
VARIABLES
  pc,               \* position in the script
  num_qubits,       \* line 22
  alpha_str,        \* line 30, last text read
  beta_str,         \* line 31, last text read
  qubit_values,     \* line 27/43
  errors,           \* st.error calls so far, in order
  tensor_coeffs,    \* line 50/60
  tensor_labels,    \* line 51/61
  measure_qubits,   \* line 71/75
  partial_coeffs,   \* line 84/93
  partial_labels,   \* line 85/94
  norm_sq,          \* line 101
  warned,           \* line 103 executed
  collapsed_coeffs, \* line 110
  collapsed_labels, \* line 111
  probabilities,    \* line 122
  exception         \* uncaught exception ending the run, "" if none

\* Session state of the arcade page (src/pages/7_QUANTUM_ALGORITHM.py).
VARIABLES
  arcade_mode,        \* line 19; "" while the page has not been opened
  secret_target,      \* line 23
  clicked_boxes,      \* line 25
  grover_game_over,   \* line 27
  dj_history,         \* line 31
  dj_balls_remaining, \* line 33
  dj_n_balls,         \* line 35
  dj_type,            \* line 37
  dj_jar              \* history: the jar reset_dj created last

\* Widgets of the superposition page (src/pages/2_SUPERPOSITION.py).
VARIABLES
  state_choice,       \* line 21; "" while the page has not been opened
  default_phi,        \* lines 39-68
  phi,                \* line 75: << value >>, << >> while not assigned
  slider_exception    \* exception raised by st.slider, "" if none

collapseVars ==
  << pc, num_qubits, alpha_str, beta_str, qubit_values, errors, tensor_coeffs,
     tensor_labels, measure_qubits, partial_coeffs, partial_labels, norm_sq,
     warned, collapsed_coeffs, collapsed_labels, probabilities, exception >>

arcadeVars ==
  << arcade_mode, secret_target, clicked_boxes, grover_game_over, dj_history,
     dj_balls_remaining, dj_n_balls, dj_type, dj_jar >>

superpositionVars == << state_choice, default_phi, phi, slider_exception >>

vars == << collapseVars, arcadeVars, superpositionVars >>

\* The arcade page has not been opened in this session.
ArcadeUnopened ==
  /\ arcade_mode = ""
  /\ secret_target = 0
  /\ clicked_boxes = {}
  /\ grover_game_over = FALSE
  /\ dj_history = <<>>
  /\ dj_balls_remaining = <<>>
  /\ dj_n_balls = 0
  /\ dj_type = ""
  /\ dj_jar = <<>>

\* The superposition page has not been opened in this session.
SuperpositionUnopened ==
  /\ state_choice = ""
  /\ default_phi = 0
  /\ phi = <<>>
  /\ slider_exception = ""

QubitCounts == {2, 3}

states == << "0", "1" >>

Outcomes == {"None", "0", "1"}

\* Start of a run: the radio (line 22) has been read, nothing else has run.
Start(n) ==
  /\ pc = "inputs"
  /\ num_qubits = n
  /\ alpha_str = ""
  /\ beta_str = ""
  /\ qubit_values = <<>>
  /\ errors = <<>>
  /\ tensor_coeffs = <<>>
  /\ tensor_labels = <<>>
  /\ measure_qubits = <<>>
  /\ partial_coeffs = <<>>
  /\ partial_labels = <<>>
  /\ norm_sq = FracZero
  /\ warned = FALSE
  /\ collapsed_coeffs = <<>>
  /\ collapsed_labels = <<>>
  /\ probabilities = <<>>
  /\ exception = ""

\* The collapse page is opened for the first time.
Init ==
  /\ \E n \in QubitCounts : Start(n)
  /\ ArcadeUnopened
  /\ SuperpositionUnopened

\* ---------------------------------------------------------------------------
\* User Inputs, one iteration of the loop of lines 28-43.
\* st.stop() raises StopException, a BaseException: the one of line 38 is
\* raised inside the try block and is caught by the bare except of line 39,
\* so line 40 reports as well before line 41 stops the run.
\* ---------------------------------------------------------------------------
Report(kind, i) == [kind |-> kind, qubit |-> i]

\* slip: st.stop() left out after an error report
st_stop_missing == "inputs"

\* lines 38, 41: st.stop() ends the run
st_stop == "stopped"

ValidateQubit ==
  /\ pc = "inputs"
  /\ \E a \in Texts, b \in Texts :
       LET i      == Len(qubit_values) + 1
           alpha  == sympify(a)
           beta   == sympify(b)
           parsed == alpha.ok /\ beta.ok
       IN  /\ alpha_str' = a
           /\ beta_str' = b
           /\ IF ~parsed
              THEN /\ errors' = Append(errors, Report("ExpressionError", i))
                   /\ pc' = st_stop
                   /\ UNCHANGED qubit_values
              ELSE IF ~Normalized(alpha.val, beta.val)
              THEN /\ errors' = errors \o << Report("NormalizationError", i),
                                             Report("ExpressionError", i) >>
                   /\ pc' = st_stop
                   /\ UNCHANGED qubit_values
              ELSE /\ qubit_values' = Append(qubit_values, <<alpha.val, beta.val>>)
                   /\ pc' = IF i = num_qubits THEN "tensor" ELSE "inputs"
                   /\ UNCHANGED errors
  /\ UNCHANGED << num_qubits, tensor_coeffs, tensor_labels, measure_qubits,
                  partial_coeffs, partial_labels, norm_sq, warned,
                  collapsed_coeffs, collapsed_labels, probabilities, exception,
                  arcadeVars, superpositionVars >>

\* ---------------------------------------------------------------------------
\* Construct Tensor Product State, lines 49-61.
\* ---------------------------------------------------------------------------
\* itertools.product(pool, repeat=n): result = [[]];
\* then n times result = [x + [y] for x in result for y in pool].
RECURSIVE product(_, _)
product(pool, n) ==
  IF n = 0
  THEN << <<>> >>
  ELSE LET prev == product(pool, n - 1)
       IN  [ k \in 1..(Len(prev) * Len(pool)) |->
               Append(prev[((k - 1) \div Len(pool)) + 1],
                      pool[((k - 1) % Len(pool)) + 1]) ]

\* slip: the two amplitudes of a qubit exchanged
pickSwapped(q, b) == IF b = "0" THEN q[2] ELSE q[1]

\* line 58: alpha if b == "0" else beta
pick(q, b) == IF b = "0" THEN q[1] ELSE q[2]

Min(x, y) == IF x < y THEN x ELSE y

\* lines 54, 56-58: coeff after the first k pairs of zip(qubit_values, basis)
RECURSIVE coeffUpTo(_, _, _)
coeffUpTo(qv, basis, k) ==
  IF k = 0
  THEN RealOne
  ELSE RealMul(coeffUpTo(qv, basis, k - 1), pick(qv[k], basis[k]))

\* slip: the last qubit left out of the product
coeffShort(qv, basis) == coeffUpTo(qv, basis, Min(Len(qv), Len(basis)) - 1)

coeff(qv, basis) == coeffUpTo(qv, basis, Min(Len(qv), Len(basis)))

ConstructTensor ==
  /\ pc = "tensor"
  /\ LET bases == product(states, num_qubits)
     IN  /\ tensor_labels' = bases
         /\ tensor_coeffs' = [ k \in 1..Len(bases) |-> coeff(qubit_values, bases[k]) ]
  /\ pc' = "measure"
  /\ UNCHANGED << num_qubits, alpha_str, beta_str, qubit_values, errors,
                  measure_qubits, partial_coeffs, partial_labels, norm_sq,
                  warned, collapsed_coeffs, collapsed_labels, probabilities,
                  exception, arcadeVars, superpositionVars >>

\* ---------------------------------------------------------------------------
\* Measurement Selection and Collapse logic, lines 70-126.
\* ---------------------------------------------------------------------------
\* slip: unmeasured qubits (None) counted as measured
measured_indicesAll(mq) == 1..Len(mq)

\* line 80 (0-based i of the source is position i + 1 here)
measured_indices(mq) == { i \in 1..Len(mq) : mq[i] # "None" }

\* slip: one agreeing measured index is enough
matchAny(lbl, mq) == \E i \in measured_indices(mq) : lbl[i] = mq[i]

\* lines 87-91
match(lbl, mq) == \A i \in measured_indices(mq) : lbl[i] = mq[i]

\* slip: the last pair of the joint state is never looked at
RECURSIVE keptDropLast(_, _, _)
keptDropLast(labels, mq, k) ==
  IF k > Len(labels) - 1
  THEN <<>>
  ELSE (IF match(labels[k], mq) THEN <<k>> ELSE <<>>)
         \o keptDropLast(labels, mq, k + 1)

\* lines 86-94: positions of the joint state that are kept, in order
RECURSIVE kept(_, _, _)
kept(labels, mq, k) ==
  IF k > Len(labels)
  THEN <<>>
  ELSE (IF match(labels[k], mq) THEN <<k>> ELSE <<>>) \o kept(labels, mq, k + 1)

\* slip: the first filtered coefficient left out of the sum
RECURSIVE sumAbsSqSkipFirst(_, _)
sumAbsSqSkipFirst(cs, k) ==
  IF k <= 1
  THEN FracZero
  ELSE FracAdd(sumAbsSqSkipFirst(cs, k - 1), AbsSq(cs[k]))

\* line 101: sum([abs(c)**2 for c in cs])
RECURSIVE sumAbsSq(_, _)
sumAbsSq(cs, k) ==
  IF k = 0 THEN FracZero ELSE FracAdd(sumAbsSq(cs, k - 1), AbsSq(cs[k]))

\* slip: 1/norm_sq without the square root
normFactorNoSqrt(nsq) ==
  Real(1, BigMul(nsq.den, nsq.den), BigMul(nsq.num, nsq.num))

\* line 106: np.sqrt(1/norm_sq), for norm_sq # 0
normFactor(nsq) == Real(1, nsq.den, nsq.num)

Collapse ==
  /\ pc = "measure"
  /\ \E mq \in [1..num_qubits -> Outcomes] :
       LET keep == kept(tensor_labels, mq, 1)
           pcs  == [ k \in 1..Len(keep) |-> tensor_coeffs[keep[k]] ]
           pls  == [ k \in 1..Len(keep) |-> tensor_labels[keep[k]] ]
           nsq  == sumAbsSq(pcs, Len(pcs))
           ccs  == [ k \in 1..Len(pcs) |-> RealMulCancel(pcs[k], normFactor(nsq)) ]
       IN  /\ measure_qubits' = mq
           /\ IF measured_indices(mq) = {}
              THEN /\ pc' = "done"
                   /\ UNCHANGED << partial_coeffs, partial_labels, norm_sq,
                                   warned, collapsed_coeffs, collapsed_labels,
                                   probabilities, exception >>
              ELSE /\ partial_coeffs' = pcs
                   /\ partial_labels' = pls
                   /\ norm_sq' = nsq
                   /\ warned' = ~isclose(nsq, DefaultTolerance)
                   /\ IF nsq.num = <<>>
                      THEN /\ exception' = "ZeroDivisionError"
                           /\ pc' = "crashed"
                           /\ UNCHANGED << collapsed_coeffs, collapsed_labels,
                                           probabilities >>
                      ELSE /\ collapsed_coeffs' = ccs
                           /\ collapsed_labels' = pls
                           /\ probabilities' = [ k \in 1..Len(ccs) |-> AbsSq(ccs[k]) ]
                           /\ pc' = "done"
                           /\ UNCHANGED exception
  /\ UNCHANGED << num_qubits, alpha_str, beta_str, qubit_values, errors,
                  tensor_coeffs, tensor_labels, arcadeVars,
                  superpositionVars >>

\* ---------------------------------------------------------------------------
\* A UI event reruns the script from the top in a fresh namespace.
\* ---------------------------------------------------------------------------
\* slip: the results of the earlier run are kept until overwritten
RerunStale ==
  /\ pc \in {"done", "stopped", "crashed"}
  /\ pc' = "inputs"
  /\ num_qubits' \in QubitCounts
  /\ alpha_str' = ""
  /\ beta_str' = ""
  /\ qubit_values' = <<>>
  /\ errors' = <<>>
  /\ tensor_coeffs' = <<>>
  /\ tensor_labels' = <<>>
  /\ measure_qubits' = <<>>
  /\ partial_coeffs' = <<>>
  /\ partial_labels' = <<>>
  /\ norm_sq' = FracZero
  /\ warned' = FALSE
  /\ exception' = ""
  /\ UNCHANGED << collapsed_coeffs, collapsed_labels, probabilities,
                  arcadeVars, superpositionVars >>

Rerun ==
  /\ pc \in {"done", "stopped", "crashed"}
  /\ pc' = "inputs"
  /\ num_qubits' \in QubitCounts
  /\ alpha_str' = ""
  /\ beta_str' = ""
  /\ qubit_values' = <<>>
  /\ errors' = <<>>
  /\ tensor_coeffs' = <<>>
  /\ tensor_labels' = <<>>
  /\ measure_qubits' = <<>>
  /\ partial_coeffs' = <<>>
  /\ partial_labels' = <<>>
  /\ norm_sq' = FracZero
  /\ warned' = FALSE
  /\ collapsed_coeffs' = <<>>
  /\ collapsed_labels' = <<>>
  /\ probabilities' = <<>>
  /\ exception' = ""
  /\ UNCHANGED << arcadeVars, superpositionVars >>

Next == ValidateQubit \/ ConstructTensor \/ Collapse \/ Rerun

Spec == Init /\ [][Next]_vars

\* ===========================================================================
\* Properties
\* ===========================================================================
\* build_joint_state has just returned
TensorBuilt == pc = "measure"

CollapseRan == pc \in {"done", "crashed"}

Measured == { i \in 1..Len(measure_qubits) : measure_qubits[i] \in {"0", "1"} }

Unmeasured == (1..Len(measure_qubits)) \ Measured

\* bit i (1 = leftmost) of the n-bit binary numeral of k - 1
BitOf(k, i, n) == ((k - 1) \div (2 ^ (n - i))) % 2

\* the k-th n-character bit-string in lexicographic order
NthLabel(k, n) == [ i \in 1..n |-> IF BitOf(k, i, n) = 0 THEN "0" ELSE "1" ]

\* amplitude of qubit i selected by the k-th bit-string
Selected(k, i, n) == qubit_values[i][1 + BitOf(k, i, n)]

SelectedProduct(k, n) ==
  IF n = 2
  THEN RealMul(Selected(k, 1, n), Selected(k, 2, n))
  ELSE RealMul(RealMul(Selected(k, 1, n), Selected(k, 2, n)), Selected(k, 3, n))

\* C1: the joint state's labels are all the N-character bit-strings in
\* lexicographic order, and the coefficient at label b1..bN is the product
\* over positions i of alpha_i when b_i is "0" and beta_i when b_i is "1".
C1_JointLabelsAndCoefficients ==
  TensorBuilt =>
    /\ Len(tensor_labels) = 2 ^ num_qubits
    /\ Len(tensor_coeffs) = 2 ^ num_qubits
    /\ \A k \in 1..(2 ^ num_qubits) :
         /\ tensor_labels[k] = NthLabel(k, num_qubits)
         /\ RealEq(tensor_coeffs[k], SelectedProduct(k, num_qubits))

C1_Witness ==
  /\ pc = "measure"
  /\ num_qubits = 3
  /\ qubit_values[1] # qubit_values[2]
  /\ \E k \in 1..Len(tensor_coeffs) : tensor_coeffs[k].sgn = -1
  /\ \E k \in 1..Len(tensor_coeffs) : tensor_coeffs[k].sgn = 0

RECURSIVE FracSum(_, _)
FracSum(fs, k) == IF k = 0 THEN FracZero ELSE FracAdd(FracSum(fs, k - 1), fs[k])

RECURSIVE FracProd(_, _)
FracProd(fs, k) == IF k = 0 THEN FracOne ELSE FracMul(FracProd(fs, k - 1), fs[k])

Millionth == Frac(<<1>>, BigNat(AtolInv))

WithinMillionth(x) == FracWithin(x, FracOne, Millionth)

JointNorm ==
  FracSum([ k \in 1..Len(tensor_coeffs) |-> AbsSq(tensor_coeffs[k]) ],
          Len(tensor_coeffs))

QubitNorm(i) == SumOfSquares(qubit_values[i][1], qubit_values[i][2])

QubitNorms == [ i \in 1..Len(qubit_values) |-> QubitNorm(i) ]

\* C2 as stated: for qubit pairs each normalized within 1e-6, the joint state
\* has 2^N entries whose squared magnitudes sum to 1 within 1e-6.
C2_AsStated ==
  (TensorBuilt /\ \A i \in 1..num_qubits : WithinMillionth(QubitNorm(i))) =>
    /\ Len(tensor_coeffs) = 2 ^ num_qubits
    /\ WithinMillionth(JointNorm)

\* C2 (amended): the joint state has 2^N entries and the sum of their squared
\* magnitudes equals the product of the qubits' own sums alpha_i^2 + beta_i^2;
\* it is 1 when every pair is exactly normalized.
C2_JointNormIsProductOfQubitNorms ==
  TensorBuilt =>
    /\ Len(tensor_coeffs) = 2 ^ num_qubits
    /\ FracEq(JointNorm, FracProd(QubitNorms, num_qubits))
    /\ (\A i \in 1..num_qubits : FracEq(QubitNorm(i), FracOne))
          => FracEq(JointNorm, FracOne)

C2_Witness ==
  /\ pc = "measure"
  /\ num_qubits = 3
  /\ \A i \in 1..3 : FracEq(QubitNorm(i), FracOne)
  /\ \A k \in 1..Len(tensor_coeffs) : tensor_coeffs[k].sgn # 0
  /\ \E k \in 1..Len(tensor_coeffs) : tensor_coeffs[k].sgn = -1

\* position of a label in the joint state (labels there are distinct)
IndexOf(lbl) == CHOOSE k \in 1..Len(tensor_labels) : tensor_labels[k] = lbl

Consistent(lbl) == \A i \in Measured : lbl[i] = measure_qubits[i]

\* C3: the filtered pairs are exactly the pairs of the joint state whose label
\* carries the observed bit at every measured index, in the joint state's
\* order; a returned collapsed state carries these labels.
C3_CollapseKeepsExactlyMatchingPairs ==
  (CollapseRan /\ Measured # {}) =>
    /\ Len(partial_coeffs) = Len(partial_labels)
    /\ { partial_labels[j] : j \in 1..Len(partial_labels) }
         = { tensor_labels[k] : k \in { m \in 1..Len(tensor_labels) :
                                          Consistent(tensor_labels[m]) } }
    /\ \A j \in 1..Len(partial_labels) :
         partial_coeffs[j] = tensor_coeffs[IndexOf(partial_labels[j])]
    /\ \A j, m \in 1..Len(partial_labels) :
         j < m => IndexOf(partial_labels[j]) < IndexOf(partial_labels[m])
    /\ pc = "done" => collapsed_labels = partial_labels

C3_Witness ==
  /\ pc = "done"
  /\ num_qubits = 3
  /\ Cardinality(Measured) = 2
  /\ Len(collapsed_labels) = 2
  /\ measure_qubits[2] = "None"

Probabilities == FracSum(probabilities, Len(probabilities))

\* C4: whenever a collapsed state is returned, the reported probabilities, one
\* per surviving label, sum to 1 within tolerance.
C4_ProbabilitiesSumToOne ==
  (pc = "done" /\ Measured # {}) =>
    /\ Len(probabilities) = Len(collapsed_labels)
    /\ \A k \in 1..Len(probabilities) :
         FracEq(probabilities[k], AbsSq(collapsed_coeffs[k]))
    /\ WithinMillionth(Probabilities)

C4_Witness ==
  /\ pc = "done"
  /\ warned
  /\ Len(probabilities) = 4
  /\ \E j, k \in 1..4 : ~FracEq(probabilities[j], probabilities[k])

\* amplitude of qubit i for the bit b
AmplitudeFor(i, b) == qubit_values[i][IF b = "0" THEN 1 ELSE 2]

ZeroAmplitudeMeasured ==
  \E i \in Measured : AmplitudeFor(i, measure_qubits[i]).sgn = 0

\* C5: measuring a qubit with an outcome whose amplitude for that qubit is
\* zero makes collapse fail with EmptyCollapseError, without a collapsed
\* state and in no other way.
C5_AsStated ==
  (CollapseRan /\ ZeroAmplitudeMeasured) =>
    /\ exception = "EmptyCollapseError"
    /\ collapsed_coeffs = <<>>

\* C6: whenever the measurement spec leaves no basis state with a non-zero
\* coefficient, collapse fails with EmptyCollapseError; a returned collapsed
\* state never has zero entries.
C6_AsStated ==
  /\ (CollapseRan /\ Measured # {}
        /\ \A j \in 1..Len(partial_coeffs) : partial_coeffs[j].sgn = 0)
       => exception = "EmptyCollapseError"
  /\ (pc = "done" /\ Measured # {}) => Len(collapsed_labels) > 0

NothingMeasured ==
  /\ Len(measure_qubits) = num_qubits
  /\ \A i \in 1..num_qubits : measure_qubits[i] = "None"

\* C7 as stated: collapse with no qubit index fixed returns the full joint
\* state unchanged.
C7_AsStated ==
  (CollapseRan /\ NothingMeasured) =>
    /\ collapsed_labels = tensor_labels
    /\ collapsed_coeffs = tensor_coeffs

\* C7 (amended): with no qubit index fixed no collapse is performed: the run
\* ends normally without filtered pairs, warning, collapsed state or
\* probabilities, and the joint state stays as built.
C7_NoCollapseWithoutMeasurement ==
  (CollapseRan /\ NothingMeasured) =>
    /\ pc = "done"
    /\ exception = ""
    /\ ~warned
    /\ partial_labels = <<>> /\ partial_coeffs = <<>>
    /\ collapsed_labels = <<>> /\ collapsed_coeffs = <<>>
    /\ probabilities = <<>>
    /\ Len(tensor_labels) = 2 ^ num_qubits
    /\ Len(tensor_coeffs) = 2 ^ num_qubits

C7_Witness ==
  /\ pc = "done"
  /\ NothingMeasured
  /\ num_qubits = 3
  /\ \E k \in 1..Len(tensor_coeffs) : tensor_coeffs[k].sgn = -1

AmpOne == sympify("1").val

AmpZero == sympify("0").val

Qubits001 == << <<AmpOne, AmpZero>>, <<AmpOne, AmpZero>>, <<AmpZero, AmpOne>> >>

Label001 == << "0", "0", "1" >>

\* C8 as stated: for qubits [(1,0),(1,0),(0,1)], collapsing against any
\* measurement spec consistent with "001" yields exactly the single entry
\* "001" with coefficient 1.
C8_AsStated ==
  (CollapseRan /\ qubit_values = Qubits001 /\ Consistent(Label001)) =>
    /\ collapsed_labels = << Label001 >>
    /\ Len(collapsed_coeffs) = 1
    /\ RealEq(collapsed_coeffs[1], RealOne)

\* C8 (amended): for qubits [(1,0),(1,0),(0,1)] the joint state has coefficient
\* 1 at "001" and 0 elsewhere; collapsing against a non-empty measurement spec
\* consistent with "001" returns every label matching the spec, "001" with
\* coefficient 1 and the others with coefficient 0, and it is the single
\* entry "001" when all three qubits are measured.
C8_Collapse001KeepsZeroEntries ==
  ((TensorBuilt \/ CollapseRan) /\ qubit_values = Qubits001) =>
    /\ \A k \in 1..Len(tensor_labels) :
         IF tensor_labels[k] = Label001
         THEN RealEq(tensor_coeffs[k], RealOne)
         ELSE tensor_coeffs[k].sgn = 0
    /\ (CollapseRan /\ Measured # {} /\ Consistent(Label001)) =>
         /\ pc = "done"
         /\ Len(collapsed_labels) = 2 ^ Cardinality(Unmeasured)
         /\ Len(collapsed_coeffs) = Len(collapsed_labels)
         /\ \E k \in 1..Len(collapsed_labels) : collapsed_labels[k] = Label001
         /\ \A k \in 1..Len(collapsed_labels) :
              IF collapsed_labels[k] = Label001
              THEN RealEq(collapsed_coeffs[k], RealOne)
              ELSE collapsed_coeffs[k].sgn = 0
         /\ Unmeasured = {} => collapsed_labels = << Label001 >>

C8_Witness ==
  /\ pc = "done"
  /\ qubit_values = Qubits001
  /\ Consistent(Label001)
  /\ Cardinality(Measured) = 1
  /\ Len(collapsed_labels) = 4

\* product over the unmeasured qubits of f(i); measured qubits contribute 1
OverUnmeasured(f(_)) ==
  FracProd([ i \in 1..num_qubits |-> IF i \in Unmeasured THEN f(i) ELSE FracOne ],
           num_qubits)

SelectedSquares(lbl) ==
  LET f(i) == AbsSq(AmplitudeFor(i, lbl[i])) IN OverUnmeasured(f)

UnmeasuredNorm == OverUnmeasured(QubitNorm)

AmpHalfRoot == sympify("1/sqrt(2)").val

Half == Frac(<<1>>, <<2>>)

\* C9: after a collapse on measured outcomes of non-zero amplitude, the
\* probability of each surviving label is the product over the unmeasured
\* qubits of the squared amplitude its bit selects (relative to those qubits'
\* own norms, which are 1 for normalized qubits), whatever the measured
\* qubits' amplitudes are; two qubits (1/sqrt2, 1/sqrt2) give labels
\* 00,01,10,11 with coefficient 1/2 each, and measuring qubit 0 as "0" gives
\* labels 00,01 with coefficient 1/sqrt2 and probability 1/2 each.
C9_ProbabilityIsUnmeasuredProduct ==
  /\ (pc = "done" /\ Measured # {}) =>
       LET norm == UnmeasuredNorm
       IN  \A k \in 1..Len(collapsed_labels) :
             LET selected == SelectedSquares(collapsed_labels[k])
             IN  /\ FracEq(FracMul(probabilities[k], norm), selected)
                 /\ FracEq(norm, FracOne) => FracEq(probabilities[k], selected)
  /\ ((TensorBuilt \/ CollapseRan)
        /\ qubit_values = << <<AmpHalfRoot, AmpHalfRoot>>, <<AmpHalfRoot, AmpHalfRoot>> >>) =>
       /\ tensor_labels = << <<"0","0">>, <<"0","1">>, <<"1","0">>, <<"1","1">> >>
       /\ \A k \in 1..4 : RealEq(tensor_coeffs[k], Real(1, <<1>>, <<4>>))
       /\ (CollapseRan /\ measure_qubits = << "0", "None" >>) =>
            /\ pc = "done"
            /\ collapsed_labels = << <<"0","0">>, <<"0","1">> >>
            /\ \A k \in 1..2 : RealEq(collapsed_coeffs[k], Real(1, <<1>>, <<2>>))
            /\ \A k \in 1..2 : FracEq(probabilities[k], Half)

C9_Witness ==
  /\ pc = "done"
  /\ num_qubits = 3
  /\ Measured = {2}
  /\ qubit_values[1] = << sympify("sqrt(3)/2").val, sympify("-1/2").val >>
  /\ qubit_values[2] = << AmpHalfRoot, AmpHalfRoot >>
  /\ FracEq(UnmeasuredNorm, FracOne)
  /\ Len(probabilities) = 4

\* the pair read last in this run and what line 36 sees of it
LastParsed ==
  /\ pc \in {"inputs", "tensor", "stopped"}
  /\ alpha_str # ""
  /\ sympify(alpha_str).ok
  /\ sympify(beta_str).ok

LastPair == << sympify(alpha_str).val, sympify(beta_str).val >>

LastAccepted ==
  /\ pc # "stopped"
  /\ qubit_values # <<>>
  /\ qubit_values[Len(qubit_values)] = LastPair

\* C10: a parsed pair is accepted exactly when |alpha^2 + beta^2 - 1| <= 1e-6;
\* any other pair is rejected with NormalizationError and is not appended.
C10_AsStated ==
  LastParsed =>
    /\ LastAccepted <=> WithinMillionth(SumOfSquares(LastPair[1], LastPair[2]))
    /\ ~LastAccepted =>
         /\ pc = "stopped"
         /\ \E e \in 1..Len(errors) :
              errors[e] = Report("NormalizationError", Len(qubit_values) + 1)

\* ---------------------------------------------------------------------------
\* Validation failures and halting (lines 27-43)

Reported(kind) == \E e \in 1..Len(errors) : errors[e].kind = kind

RunStoppedAtInput == pc = "stopped" /\ alpha_str # ""

BothParsed == sympify(alpha_str).ok /\ sympify(beta_str).ok

C12_AsStated ==
  (CollapseRan /\ Measured # {} /\ ~isclose(norm_sq, DefaultTolerance)) =>
    /\ warned
    /\ pc = "done"
    /\ collapsed_coeffs # <<>>
    /\ Len(probabilities) = Len(collapsed_coeffs)
    /\ WithinMillionth(Probabilities)

\* C13: when a qubit's input fails validation the run halts at that qubit: no
\* joint state, collapsed state or probabilities are computed in that run and
\* the qubits after the failing one are not processed.
C13_RunHaltsAtFailingQubit ==
  errors # <<>> =>
    /\ pc = "stopped"
    /\ Len(qubit_values) < num_qubits
    /\ \A e \in 1..Len(errors) : errors[e].qubit = Len(qubit_values) + 1
    /\ tensor_coeffs = <<>> /\ tensor_labels = <<>>
    /\ measure_qubits = <<>>
    /\ partial_coeffs = <<>> /\ partial_labels = <<>>
    /\ collapsed_coeffs = <<>> /\ collapsed_labels = <<>>
    /\ probabilities = <<>>

C13_Witness ==
  /\ pc = "stopped"
  /\ num_qubits = 3
  /\ Len(qubit_values) = 1
  /\ Reported("NormalizationError")

\* ---------------------------------------------------------------------------
\* Results against the current inputs (lines 22-126)

ResultsShown == pc = "done" /\ Measured # {}

\* indices of the joint state whose label agrees with the measurement spec
ConsistentIndices ==
  { k \in 1..(2 ^ num_qubits) : Consistent(NthLabel(k, num_qubits)) }

\* squared norm of the joint state of the current amplitudes, restricted to
\* the labels that agree with the current measurement spec
ConsistentNorm ==
  LET n  == num_qubits
      sq == [ k \in 1..(2 ^ n) |->
                IF k \in ConsistentIndices THEN AbsSq(SelectedProduct(k, n))
                                           ELSE Frac(<<>>, AbsSq(SelectedProduct(k, n)).den) ]
  IN  FracSum(sq, 2 ^ n)

\* C15: in every run the collapsed state and the probabilities are those of
\* collapsing the joint state of the current amplitudes against the current
\* measurement spec, and nothing of an earlier run is present in a run that
\* has not produced them itself.
C15_ResultsAreOfCurrentInputs ==
  /\ pc \in {"inputs", "tensor", "stopped"} =>
       /\ tensor_coeffs = <<>> /\ tensor_labels = <<>>
       /\ measure_qubits = <<>>
       /\ partial_coeffs = <<>> /\ partial_labels = <<>>
  /\ ~ResultsShown =>
       /\ collapsed_coeffs = <<>> /\ collapsed_labels = <<>>
       /\ probabilities = <<>>
  /\ ResultsShown =>
       LET n    == num_qubits
           norm == ConsistentNorm
       IN  /\ Len(collapsed_coeffs) = Cardinality(ConsistentIndices)
           /\ Len(collapsed_labels) = Len(collapsed_coeffs)
           /\ Len(probabilities) = Len(collapsed_coeffs)
           /\ \A j, m \in 1..Len(collapsed_labels) :
                j < m => IndexOf(collapsed_labels[j]) < IndexOf(collapsed_labels[m])
           /\ \A j \in 1..Len(collapsed_labels) :
                LET k  == IndexOf(collapsed_labels[j])
                    sq == AbsSq(SelectedProduct(k, n))
                IN  /\ k \in ConsistentIndices
                    /\ collapsed_labels[j] = NthLabel(k, n)
                    /\ collapsed_coeffs[j].sgn = SelectedProduct(k, n).sgn
                    /\ FracEq(FracMul(AbsSq(collapsed_coeffs[j]), norm), sq)
                    /\ FracEq(FracMul(probabilities[j], norm), sq)

C15_Witness ==
  /\ ResultsShown
  /\ num_qubits = 2
  /\ measure_qubits = << "None", "1" >>
  /\ qubit_values = << <<AmpZero, AmpOne>>, <<AmpHalfRoot, AmpHalfRoot>> >>

\* ===========================================================================
\* The arcade page (src/pages/7_QUANTUM_ALGORITHM.py).  Its state lives in
\* st.session_state and survives the reruns; every button click is one rerun
\* of the script, modelled as one action.  The other pages are not opened in
\* a session on this page.
\* ===========================================================================

\* The collapse page has not been opened in this session.
CollapseUnopened ==
  /\ pc = "unopened"
  /\ num_qubits = 0
  /\ alpha_str = ""
  /\ beta_str = ""
  /\ qubit_values = <<>>
  /\ errors = <<>>
  /\ tensor_coeffs = <<>>
  /\ tensor_labels = <<>>
  /\ measure_qubits = <<>>
  /\ partial_coeffs = <<>>
  /\ partial_labels = <<>>
  /\ norm_sq = FracZero
  /\ warned = FALSE
  /\ collapsed_coeffs = <<>>
  /\ collapsed_labels = <<>>
  /\ probabilities = <<>>
  /\ exception = ""

\* lines 23, 135: np.random.randint(0, 16), range(16)
Sectors == 16

SectorIds == 0..(Sectors - 1)

\* line 35: default jar size
DefaultBalls == 8

\* line 239: options of the jar size slider
JarSizes == {8, 16, 32}

ConstantJar == "Constant (All Red)"

BalancedJar == "Balanced (Half Red/Half Blue)"

\* line 241: options of the jar type radio
JarTypes == {ConstantJar, BalancedJar}

Red == "R"

Blue == "B"

\* lines 18-37: the session state on the first run of the page
SessionInit ==
  /\ arcade_mode = "Lobby"
  /\ secret_target \in SectorIds
  /\ clicked_boxes = {}
  /\ grover_game_over = FALSE
  /\ dj_history = <<>>
  /\ dj_balls_remaining = <<>>
  /\ dj_n_balls = DefaultBalls
  /\ dj_type = ConstantJar
  /\ dj_jar = <<>>

InitArcade ==
  /\ SessionInit
  /\ CollapseUnopened
  /\ SuperpositionUnopened

groverVars == << secret_target, clicked_boxes, grover_game_over >>

djVars == << dj_history, dj_balls_remaining, dj_n_balls, dj_type, dj_jar >>

otherPages == << collapseVars, superpositionVars >>

\* lines 40-41
go_lobby == arcade_mode' = "Lobby"

\* lines 43-46
reset_grover ==
  /\ secret_target' \in SectorIds
  /\ clicked_boxes' = {}
  /\ grover_game_over' = FALSE

\* n balls of one colour
RECURSIVE balls(_, _)
balls(colour, n) == IF n = 0 THEN <<>> ELSE <<colour>> \o balls(colour, n - 1)

\* r reds and b blues in turns, starting with colour c where one is left
RECURSIVE inTurns(_, _, _)
inTurns(r, b, c) ==
  IF r = 0 /\ b = 0 THEN <<>>
  ELSE IF (c = Red /\ r > 0) \/ b = 0
       THEN <<Red>> \o inTurns(r - 1, b, Blue)
       ELSE <<Blue>> \o inTurns(r, b - 1, Red)

\* Longest run of one colour at the head of the orders np.random.shuffle is
\* taken to produce, besides the run of a whole half.
MaxLead == 2

Leads(half) == { l \in 1..half : l <= MaxLead \/ l = half }

\* half reds and half blues: `lead` balls of colour `first`, the rest in turns
Arrangement(half, lead, first) ==
  balls(first, lead) \o
    (IF first = Red THEN inTurns(half - lead, half, Blue)
                    ELSE inTurns(half, half - lead, Red))

\* line 60: the orders np.random.shuffle(balls) can leave
shuffle(half) ==
  { Arrangement(half, lead, first) : lead \in Leads(half), first \in {Red, Blue} }

\* line 54: "Constant" in jar_type
isConstant(jar_type) == jar_type = ConstantJar

\* lines 54-61: the jars reset_dj can create
jars(n, jar_type) ==
  IF isConstant(jar_type) THEN { balls(Red, n) } ELSE shuffle(n \div 2)

\* lines 48-61
reset_dj(n, jar_type) ==
  /\ dj_history' = <<>>
  /\ dj_n_balls' = n
  /\ dj_type' = jar_type
  /\ dj_balls_remaining' \in jars(n, jar_type)
  /\ dj_jar' = dj_balls_remaining'

\* lines 83-86
StartMission1 ==
  /\ arcade_mode = "Lobby"
  /\ reset_grover
  /\ arcade_mode' = "Grover"
  /\ UNCHANGED << djVars, otherPages >>

\* lines 98-102
StartMission2 ==
  /\ arcade_mode = "Lobby"
  /\ reset_dj(DefaultBalls, ConstantJar)
  /\ arcade_mode' = "DJ"
  /\ UNCHANGED << groverVars, otherPages >>

\* lines 114-116
StartMission3 ==
  /\ arcade_mode = "Lobby"
  /\ arcade_mode' = "Shor"
  /\ UNCHANGED << groverVars, djVars, otherPages >>

\* lines 122, 226, 324: the exit button of each mission
ExitToLobby ==
  /\ arcade_mode \in {"Grover", "DJ", "Shor"}
  /\ go_lobby
  /\ UNCHANGED << groverVars, djVars, otherPages >>

\* slip: a found target does not disable the remaining sectors
disabledWhenClickedOnly(i) == i \in clicked_boxes

\* line 149
disabled(i) == (i \in clicked_boxes) \/ grover_game_over

\* How far from the sectors already clicked the player's next click may be.
MaxStride == 1

Reachable(i) ==
  clicked_boxes = {} \/
    \E j \in clicked_boxes : i - j \in (0 - MaxStride)..MaxStride

\* lines 151-156: a click on an enabled sector button
ClickSector ==
  /\ arcade_mode = "Grover"
  /\ \E i \in SectorIds :
       /\ ~disabled(i)
       /\ Reachable(i)
       /\ clicked_boxes' = clicked_boxes \cup {i}
       /\ grover_game_over' = (IF i = secret_target THEN TRUE ELSE grover_game_over)
  /\ UNCHANGED << arcade_mode, secret_target, djVars, otherPages >>

\* lines 162-167: the button exists only when the game is over
PlayAgain ==
  /\ arcade_mode = "Grover"
  /\ grover_game_over
  /\ reset_grover
  /\ UNCHANGED << arcade_mode, djVars, otherPages >>

\* lines 243-245
ApplyAndReset ==
  /\ arcade_mode = "DJ"
  /\ \E n_select \in JarSizes, type_select \in JarTypes :
       reset_dj(n_select, type_select)
  /\ UNCHANGED << arcade_mode, groverVars, otherPages >>

\* slip: the drawn ball stays in the jar
popKeeping(list, index) == [ball |-> list[index + 1], list |-> list]

\* line 261: list.pop(index)
pop(list, index) ==
  [ball |-> list[index + 1],
   list |-> [ k \in 1..(Len(list) - 1) |-> IF k <= index THEN list[k] ELSE list[k + 1] ]]

\* lines 259-262: the draw button exists only while the jar is not empty
DrawOneBall ==
  /\ arcade_mode = "DJ"
  /\ dj_balls_remaining # <<>>
  /\ LET popped == pop(dj_balls_remaining, 0)
     IN  /\ dj_balls_remaining' = popped.list
         /\ dj_history' = Append(dj_history, popped.ball)
  /\ UNCHANGED << arcade_mode, dj_n_balls, dj_type, dj_jar, groverVars, otherPages >>

\* slip: the certainty threshold without the extra ball
worst_caseHalf(n) == n \div 2

\* line 247: int((dj_n_balls / 2) + 1)
worst_case(n) == (n \div 2) + 1

\* lines 275-285
verdict(history, n) ==
  LET tries  == Len(history)
      unique == { history[k] : k \in 1..Len(history) }
  IN  IF Cardinality(unique) > 1 THEN "Balanced"
      ELSE IF tries >= worst_case(n) THEN "Constant"
      ELSE "Unsure"

\* A session in which the player plays the sector game.
NextGrover ==
  StartMission1 \/ StartMission2 \/ StartMission3 \/ ExitToLobby \/ ClickSector \/ PlayAgain

SpecGrover == InitArcade /\ [][NextGrover]_vars

\* A session in which the player plays the jar game.
NextDJ ==
  StartMission1 \/ StartMission2 \/ StartMission3 \/ ExitToLobby \/ ApplyAndReset
    \/ DrawOneBall

SpecDJ == InitArcade /\ [][NextDJ]_vars

\* ---------------------------------------------------------------------------
\* The sector game (lines 22-27, 43-46, 135-167)

GroverConsistent ==
  /\ grover_game_over <=> secret_target \in clicked_boxes
  /\ clicked_boxes \subseteq SectorIds
  /\ Cardinality(clicked_boxes) <= Sectors

SectorsFrozenWhenOver ==
  grover_game_over =>
    \/ clicked_boxes' = clicked_boxes
    \/ clicked_boxes' = {} /\ ~grover_game_over'

\* C16: grover_game_over is true exactly when secret_target is in
\* clicked_boxes; once the game is over no sector is added until reset_grover
\* empties the set; the attempt count never exceeds 16.
C16_GroverGameOver == []GroverConsistent /\ [][SectorsFrozenWhenOver]_vars

C16_Witness ==
  /\ arcade_mode = "Grover"
  /\ grover_game_over
  /\ Cardinality(clicked_boxes) = Sectors

\* ---------------------------------------------------------------------------
\* The jar game (lines 48-61, 98-102, 239-285)

JarConserved ==
  arcade_mode = "DJ" =>
    /\ Len(dj_history) + Len(dj_balls_remaining) = dj_n_balls
    /\ dj_history \o dj_balls_remaining = dj_jar

HistoryGrows == dj_history' # dj_history /\ dj_history' # <<>>

DrawMovesFirstBall ==
  HistoryGrows =>
    /\ dj_balls_remaining # <<>>
    /\ dj_history' = Append(dj_history, Head(dj_balls_remaining))
    /\ dj_balls_remaining' = Tail(dj_balls_remaining)
    /\ dj_jar' = dj_jar

\* C17: in the jar game, history and remaining balls together are the jar the
\* last reset_dj created, dj_n_balls balls in all; each draw moves exactly
\* the first remaining ball to the end of the history, and no draw takes place
\* when the jar is empty.
C17_JarConservation == []JarConserved /\ [][DrawMovesFirstBall]_vars

C17_Witness ==
  /\ arcade_mode = "DJ"
  /\ dj_n_balls = 32
  /\ dj_type = BalancedJar
  /\ dj_balls_remaining = <<>>
  /\ Len(dj_history) = 32

Count(colour, jar) == Cardinality({ k \in 1..Len(jar) : jar[k] = colour })

JarIsConstant == Count(Red, dj_jar) = Len(dj_jar)

JarIsBalanced == Count(Red, dj_jar) = Count(Blue, dj_jar)

Verdict == verdict(dj_history, dj_n_balls)

\* C18: for every jar size in {8, 16, 32}, jar type and shuffle the verdict
\* shown is never wrong about the jar, and after n/2 + 1 draws a verdict has
\* always been reached.
C18_VerdictSound ==
  arcade_mode = "DJ" =>
    /\ dj_n_balls \in JarSizes
    /\ Len(dj_jar) = dj_n_balls
    /\ IF isConstant(dj_type) THEN JarIsConstant ELSE JarIsBalanced
    /\ Verdict = "Balanced" => JarIsBalanced /\ ~JarIsConstant
    /\ Verdict = "Constant" => JarIsConstant
    /\ Len(dj_history) >= (dj_n_balls \div 2) + 1 => Verdict # "Unsure"

C18_Witness ==
  /\ arcade_mode = "DJ"
  /\ dj_n_balls = 32
  /\ Len(dj_history) = 17
  /\ SubSeq(dj_history, 1, 16) = balls(Blue, 16)
  /\ verdict(SubSeq(dj_history, 1, 16), dj_n_balls) = "Unsure"
  /\ Verdict = "Balanced"

\* ===========================================================================
\* The superposition page (src/pages/2_SUPERPOSITION.py).  Phases are in
\* millionths of a radian.  The page keeps nothing in st.session_state; the
\* radio and the slider keep their widget values across reruns.
\* ===========================================================================

\* lines 26-35: the options of the radio, in order
StateChoices ==
  << "|0>", "|1>", "|+>", "|->", "|i>", "|-i>",
     "Intermediate 1", "Intermediate 2", "Intermediate 3", "Intermediate 4" >>

\* np.pi
Pi == 3141593

\* lines 39-68
defaultPhi(choice) ==
  CASE choice = "|0>"  -> 0
    [] choice = "|1>"  -> 0
    [] choice = "|+>"  -> 0
    [] choice = "|->"  -> Pi
    [] choice = "|i>"  -> Pi \div 2
    [] choice = "|-i>" -> 0 - (Pi \div 2)
    [] OTHER           -> 0

\* line 77
min_value == 0

\* line 78
max_value == 2 * Pi

\* line 80
step == 10000

\* lines 75-81: st.slider raises when the default is outside the range
sliderAccepts(value) == min_value <= value /\ value <= max_value

\* lines 75-81: phi after a rerun.  The slider is identified by its
\* arguments: with the same default as in the previous run it keeps the
\* position the user gave it, otherwise it starts at the default.
sliderValue(value) ==
  IF slider_exception = "" /\ phi # <<>> /\ value = default_phi THEN phi ELSE << value >>

InitSuperposition ==
  /\ state_choice = StateChoices[1]
  /\ default_phi = defaultPhi(StateChoices[1])
  /\ phi = << default_phi >>
  /\ slider_exception = ""
  /\ CollapseUnopened
  /\ ArcadeUnopened

\* lines 23-81: the user picks another state and the script reruns
ChooseState ==
  /\ \E c \in 1..Len(StateChoices) :
       LET value == defaultPhi(StateChoices[c])
       IN  /\ StateChoices[c] # state_choice
           /\ state_choice' = StateChoices[c]
           /\ default_phi' = value
           /\ IF sliderAccepts(value)
              THEN /\ phi' = sliderValue(value)
                   /\ slider_exception' = ""
              ELSE /\ phi' = <<>>
                   /\ slider_exception' = "StreamlitAPIException"
  /\ UNCHANGED << collapseVars, arcadeVars >>

\* Number of slider positions, counted from min_value, the user moves to.
MaxSliderSteps == 20

\* lines 75-81: the user moves the slider and the script reruns
MoveSlider ==
  /\ slider_exception = ""
  /\ \E k \in 0..MaxSliderSteps :
       /\ sliderAccepts(min_value + k * step)
       /\ phi # << min_value + k * step >>
       /\ phi' = << min_value + k * step >>
  /\ UNCHANGED << state_choice, default_phi, slider_exception, collapseVars, arcadeVars >>

NextSuperposition == ChooseState \/ MoveSlider

SpecSuperposition == InitSuperposition /\ [][NextSuperposition]_vars

\* C19: for every selectable state the default relative phase lies within
\* the slider's range [0, 2 pi], so the slider is shown for it.
C19_AsStated ==
  /\ min_value <= default_phi
  /\ default_phi <= max_value
  /\ slider_exception = ""

====
